---- MODULE Spec2Model ----
(***************************************************************************)
(* The announcements router (src/backend/routers/announcements.py): four   *)
(* request handlers over the announcements collection, with a teacher      *)
(* lookup gating the three writes.                                         *)
(*                                                                         *)
(* Python values are records [type, s]: s is the text of the value as a    *)
(* sequence of chunks (a str is the concatenation of its chunks, "" is     *)
(* the empty sequence), type is the Python type.  An ObjectId and the str  *)
(* of its hex text are different values with the same text, as they are    *)
(* for the document store when it matches _id.                             *)
(***************************************************************************)
EXTENDS Integers, Sequences, FiniteSets, Bags, TLC

VARIABLES announcements, clock, nextOid, deleted, inflight, last

vars == <<announcements, clock, nextOid, deleted, inflight, last>>

(* Bounds of the model. *)
MaxTime == 2
MaxOid == 1
MaxInFlight == 2

---------------------------------------------------------------------------
(* Python values *)

PyNone == [type |-> "NoneType", s |-> <<>>]

PyStr(chunks) == [type |-> "str", s |-> chunks]

ObjectId(n) == [type |-> "ObjectId", s |-> <<ToString(n)>>]

(* str(v): a str is itself, an ObjectId becomes its hex text. *)
Str(v) == PyStr(v.s)

(* bool(v) for None and str: None and "" are falsy. *)
Truthy(v) == v.type # "NoneType" /\ v.s # <<>>

(* dict.get(k): None when the key is absent. *)
Get(doc, k) == IF k \in DOMAIN doc THEN doc[k] ELSE PyNone

(* {**f, **g} and the store's $set: g's keys win. *)
Merge(f, g) ==
    [k \in DOMAIN f \cup DOMAIN g |-> IF k \in DOMAIN g THEN g[k] ELSE f[k]]

EmptyDict == [k \in {} |-> PyNone]

---------------------------------------------------------------------------
(* ISO-8601 texts.  Time is counted in hours from a fixed UTC midnight; a  *)
(* date-time chunk names a wall-clock hour, an offset chunk a UTC offset.  *)

Hours == 0..(MaxTime + 2)

Offsets == {0, 2}

DateText(t) == "2030-01-01T0" \o ToString(t) \o ":00:00"

OffsetText(h) == "+0" \o ToString(h) \o ":00"

(* str.replace("Z", "+00:00"): every "Z" of the text becomes "+00:00". *)
ReplaceZ(chunks) ==
    [i \in 1..Len(chunks) |-> IF chunks[i] = "Z" THEN OffsetText(0) ELSE chunks[i]]

IsDate(c) == \E t \in Hours : c = DateText(t)

IsOffset(c) == \E h \in Offsets : c = OffsetText(h)

(* datetime.fromisoformat: a date-time alone parses to a naive datetime, a *)
(* date-time followed by an offset to an aware one, anything else raises   *)
(* ValueError.                                                             *)
fromisoformat(chunks) ==
    IF Len(chunks) = 1 /\ IsDate(chunks[1])
    THEN [ok |-> TRUE, aware |-> FALSE,
          wall |-> CHOOSE t \in Hours : chunks[1] = DateText(t), offset |-> 0]
    ELSE IF Len(chunks) = 2 /\ IsDate(chunks[1]) /\ IsOffset(chunks[2])
    THEN [ok |-> TRUE, aware |-> TRUE,
          wall |-> CHOOSE t \in Hours : chunks[1] = DateText(t),
          offset |-> CHOOSE h \in Offsets : chunks[2] = OffsetText(h)]
    ELSE [ok |-> FALSE, aware |-> FALSE, wall |-> 0, offset |-> 0]

(* The body of the try block of list_announcements for one expiration     *)
(* text, now being datetime.now(timezone.utc): "continue" when exp_dt <    *)
(* now, "raise" when fromisoformat raises ValueError or the comparison of  *)
(* a naive with an aware datetime raises TypeError, "pass" otherwise.      *)
TryExpired(exp, now) ==
    LET dt == fromisoformat(ReplaceZ(exp.s))
    IN  IF ~dt.ok THEN "raise"
        ELSE IF ~dt.aware THEN "raise"
        ELSE IF dt.wall - dt.offset < now THEN "continue"
        ELSE "pass"

(* Whether the loop of list_announcements reaches the lines that put doc  *)
(* into the result: except Exception swallows a raise.                     *)
KeepsFailClosed(doc, now) ==
    LET exp == Get(doc, "expiration_date")
    IN  IF Truthy(exp) THEN TryExpired(exp, now) = "pass" ELSE TRUE

Keeps(doc, now) ==
    LET exp == Get(doc, "expiration_date")
    IN  IF Truthy(exp) THEN TryExpired(exp, now) # "continue" ELSE TRUE

---------------------------------------------------------------------------
(* The document store.  A collection is a function from _id values to the  *)
(* documents' other fields.                                                *)

teachers_collection == {PyStr(<<"t1">>)}

(* find_one({"_id": username}) on the teachers collection. *)
FindTeacher(username) == username \in teachers_collection

(* insert_one(document) with no _id in the document: the driver assigns a  *)
(* new ObjectId, adds it to the caller's dict in place and stores it.      *)
InsertOne(coll, oid, document) ==
    [coll |-> [k \in DOMAIN coll \cup {ObjectId(oid)} |->
                  IF k = ObjectId(oid) THEN document ELSE coll[k]],
     document |-> Merge(document, [_id |-> ObjectId(oid)]),
     inserted_id |-> ObjectId(oid)]

(* update_one({"_id": id}, {"$set": update}) with upsert enabled. *)
UpdateOneUpsert(coll, id, update) ==
    [coll |-> [k \in DOMAIN coll \cup {id} |->
                  IF k = id
                  THEN Merge(IF id \in DOMAIN coll THEN coll[id] ELSE EmptyDict, update)
                  ELSE coll[k]],
     matched_count |-> IF id \in DOMAIN coll THEN 1 ELSE 0]

(* update_one that replaces the matched document by the update. *)
UpdateOneReplace(coll, id, update) ==
    IF id \in DOMAIN coll
    THEN [coll |-> [coll EXCEPT ![id] = update], matched_count |-> 1]
    ELSE [coll |-> coll, matched_count |-> 0]

(* update_one({"_id": id}, {"$set": update}): _id is matched by value and  *)
(* type; no upsert.                                                        *)
UpdateOne(coll, id, update) ==
    IF id \in DOMAIN coll
    THEN [coll |-> [coll EXCEPT ![id] = Merge(coll[id], update)], matched_count |-> 1]
    ELSE [coll |-> coll, matched_count |-> 0]

(* delete_one({"_id": id}). *)
DeleteOne(coll, id) ==
    IF id \in DOMAIN coll
    THEN [coll |-> [k \in DOMAIN coll \ {id} |-> coll[k]], deleted_count |-> 1]
    ELSE [coll |-> coll, deleted_count |-> 0]

---------------------------------------------------------------------------
(* The handlers.  A handler's result is the response (status, detail or    *)
(* returned body), the announcements collection it leaves, and the         *)
(* collections it touched.                                                 *)

PyTrue == [type |-> "bool", s |-> <<"True">>]

UpdateFields == {"title", "message", "expiration_date", "start_date"}

Raised(status, detail, coll, touched) ==
    [status |-> status, detail |-> detail, body |-> EmptyDict,
     coll |-> coll, touched |-> touched]

Returned(status, body, coll, touched) ==
    [status |-> status, detail |-> "", body |-> body,
     coll |-> coll, touched |-> touched]

(* A teacher check that accepts every non-empty username. *)
require_teacher_no_lookup(username) ==
    IF ~Truthy(username)
    THEN [ok |-> FALSE, status |-> 401, detail |-> "Authentication required",
          touched |-> {}]
    ELSE [ok |-> TRUE, status |-> 200, detail |-> "", touched |-> {}]

_require_teacher(username) ==
    IF ~Truthy(username)
    THEN [ok |-> FALSE, status |-> 401, detail |-> "Authentication required",
          touched |-> {}]
    ELSE IF ~FindTeacher(username)
    THEN [ok |-> FALSE, status |-> 401, detail |-> "Invalid teacher credentials",
          touched |-> {"teachers"}]
    ELSE [ok |-> TRUE, status |-> 200, detail |-> "", touched |-> {"teachers"}]

(* list_announcements from the find on: now was read before it. *)
list_find(coll, now) ==
    LET kept == {k \in DOMAIN coll : Keeps(coll[k], now)}
        body == [i \in {Str(k) : k \in kept} |->
                    coll[CHOOSE k \in kept : Str(k) = i]]
    IN  Returned(200, body, coll, {"announcements"})

list_announcements(coll, now) == list_find(coll, now)

(* create_announcement from the construction of the document on. *)
create_insert(coll, oid, a, touched) ==
    LET announcement == [title |-> a.title, message |-> a.message,
                         start_date |-> a.start_date,
                         expiration_date |-> a.expiration_date,
                         created_by |-> a.created_by]
        result == InsertOne(coll, oid, announcement)
    IN  Returned(201, Merge([id |-> Str(result.inserted_id)], result.document),
                 result.coll, touched \cup {"announcements"})

create_announcement(coll, oid, a) ==
    LET auth == _require_teacher(a.created_by)
    IN  IF ~auth.ok THEN Raised(auth.status, auth.detail, coll, auth.touched)
        ELSE create_insert(coll, oid, a, auth.touched)

(* The update dict of update_announcement: the supplied fields. *)
build_update(a) == [k \in {f \in UpdateFields : a[f] # PyNone} |-> a[k]]

(* update_announcement from the store call on. *)
update_apply(coll, a, touched) ==
    LET update == build_update(a)
        result == UpdateOne(coll, a.announcement_id, update)
    IN  IF result.matched_count = 0
        THEN Raised(404, "Announcement not found", result.coll,
                    touched \cup {"announcements"})
        ELSE Returned(200, Merge([id |-> a.announcement_id], update), result.coll,
                      touched \cup {"announcements"})

(* update_announcement up to the store call: the teacher check, then the  *)
(* check that some field was supplied.                                     *)
update_checks(a) ==
    LET auth == _require_teacher(a.modified_by)
    IN  IF ~auth.ok THEN auth
        ELSE IF build_update(a) = EmptyDict
        THEN [ok |-> FALSE, status |-> 400, detail |-> "No fields to update",
              touched |-> auth.touched]
        ELSE auth

(* update_announcement with the check for an empty update left out. *)
update_announcement_unchecked(coll, a) ==
    LET auth == _require_teacher(a.modified_by)
    IN  IF ~auth.ok THEN Raised(auth.status, auth.detail, coll, auth.touched)
        ELSE update_apply(coll, a, auth.touched)

update_announcement(coll, a) ==
    LET checks == update_checks(a)
    IN  IF ~checks.ok THEN Raised(checks.status, checks.detail, coll, checks.touched)
        ELSE update_apply(coll, a, checks.touched)

(* delete_announcement from the store call on. *)
delete_apply(coll, a, touched) ==
    LET result == DeleteOne(coll, a.announcement_id)
    IN  IF result.deleted_count = 0
        THEN Raised(404, "Announcement not found", result.coll,
                    touched \cup {"announcements"})
        ELSE Returned(200, [id |-> a.announcement_id, deleted |-> PyTrue],
                      result.coll, touched \cup {"announcements"})

delete_announcement(coll, a) ==
    LET auth == _require_teacher(a.deleted_by)
    IN  IF ~auth.ok THEN Raised(auth.status, auth.detail, coll, auth.touched)
        ELSE delete_apply(coll, a, auth.touched)

---------------------------------------------------------------------------
(* Requests.                                                               *)

Teacher == PyStr(<<"t1">>)

Usernames == {PyNone, PyStr(<<>>), Teacher, PyStr(<<"zz">>)}

(* Expiration texts, all naming the UTC instant 1 when they name one:      *)
(* with Z, with an offset, with no designator, not a date, and empty.      *)
ExpZ == PyStr(<<DateText(1), "Z">>)

ExpOffset == PyStr(<<DateText(3), OffsetText(2)>>)

ExpNaive == PyStr(<<DateText(1)>>)

ExpJunk == PyStr(<<"next friday">>)

ExpEmpty == PyStr(<<>>)

ExpTexts == {ExpZ, ExpOffset, ExpNaive, ExpJunk, ExpEmpty}

Payload(title, message, start, exp) ==
    [title |-> title, message |-> message, start_date |-> start,
     expiration_date |-> exp]

CreatePayloads ==
    {Payload(PyStr(<<"Exam">>), PyStr(<<"Midterm Friday">>), PyNone, e) : e \in ExpTexts}
    \cup {Payload(PyStr(<<>>), PyStr(<<"Midterm Friday">>), PyStr(<<"2029">>), ExpZ),
          Payload(PyStr(<<"Exam">>), PyStr(<<>>), PyNone, ExpZ)}

(* Every payload by the teacher, and one payload by each other username. *)
CreateRequests ==
    {Merge(p, [created_by |-> Teacher]) : p \in CreatePayloads}
    \cup {Merge(Payload(PyStr(<<"Exam">>), PyStr(<<"Midterm Friday">>), PyNone, ExpZ),
                [created_by |-> u]) : u \in Usernames}

(* The identifiers a client can send: the seeded names and the texts of    *)
(* the ObjectIds create returns.                                           *)
SeedA == PyStr(<<"a">>)

SeedB == PyStr(<<"b">>)

RequestIds == {SeedA} \cup {Str(ObjectId(n)) : n \in 1..MaxOid}

UpdatePayloads ==
    [title : {PyNone, PyStr(<<"New">>)},
     message : {PyNone, PyStr(<<"Moved">>)},
     expiration_date : {PyNone, ExpNaive},
     start_date : {PyNone, PyStr(<<"2030">>)}]

(* Every combination of fields by the teacher; no field and the title     *)
(* alone by each other username.                                           *)
UpdateRequests ==
    {a \in {Merge(p, [announcement_id |-> i, modified_by |-> u]) :
                p \in UpdatePayloads, i \in RequestIds, u \in Usernames} :
        \/ a.modified_by = Teacher
        \/ a.message = PyNone /\ a.expiration_date = PyNone /\ a.start_date = PyNone}

DeleteRequests == [announcement_id : RequestIds, deleted_by : Usernames]

---------------------------------------------------------------------------
(* State.  announcements is the collection; clock is the UTC time; nextOid *)
(* numbers the ObjectIds the store hands out; deleted holds the ids whose  *)
(* delete succeeded; inflight is the bag of the requests that passed their *)
(* checks and have not reached the store; last is the last completed       *)
(* request: its arguments and response, the collection (before) and the    *)
(* deleted ids (gone) when it reached the store, and the deleted ids when  *)
(* the request arrived (began); it is NoResponse once the response has     *)
(* been returned.                                                          *)

EmptyColl == [k \in {} |-> EmptyDict]

(* A collection seeded by hand: its _ids are names, as the teachers' are,  *)
(* and no name is the hex text of an ObjectId.  One record has neither a   *)
(* start_date nor an expiration_date.                                      *)
SeedColl ==
    [k \in {SeedA, SeedB} |->
        IF k = SeedA
        THEN [title |-> PyStr(<<"Old">>), message |-> PyStr(<<"Body">>),
              expiration_date |-> ExpZ, created_by |-> Teacher]
        ELSE [title |-> PyStr(<<"Notice">>), message |-> PyStr(<<"Welcome">>),
              created_by |-> Teacher]]

Pending(op, a, touched) ==
    [op |-> op, args |-> a, now |-> clock, began |-> deleted, touched |-> touched]

Completed(op, a, r, now, began) ==
    [op |-> op, args |-> a, status |-> r.status, detail |-> r.detail,
     body |-> r.body, touched |-> r.touched, before |-> announcements,
     now |-> now, gone |-> deleted, began |-> began]

NoResponse ==
    [op |-> "none", args |-> EmptyDict, status |-> 0, detail |-> "",
     body |-> EmptyDict, touched |-> {}, before |-> EmptyColl,
     now |-> 0, gone |-> {}, began |-> {}]

(* The server is ready for the next response when the last one has been   *)
(* returned to its client.                                                 *)
Ready == last = NoResponse

Init ==
    /\ announcements \in {EmptyColl, SeedColl}
    /\ clock = 0
    /\ nextOid = 1
    /\ deleted = {}
    /\ inflight = EmptyBag
    /\ last = NoResponse

(* Time passes. *)
Tick ==
    /\ clock < MaxTime
    /\ clock' = clock + 1
    /\ UNCHANGED <<announcements, nextOid, deleted, inflight, last>>

(* The response of the last completed request goes back to its client. *)
Return ==
    /\ ~Ready
    /\ last' = NoResponse
    /\ UNCHANGED <<announcements, clock, nextOid, deleted, inflight>>

(* GET /announcements, handled in one step. *)
List ==
    LET r == list_announcements(announcements, clock)
    IN  /\ Ready
        /\ last' = Completed("list", EmptyDict, r, clock, deleted)
        /\ UNCHANGED <<announcements, clock, nextOid, deleted, inflight>>

(* POST /announcements, handled in one step. *)
Create ==
    \E a \in CreateRequests :
        LET r == create_announcement(announcements, nextOid, a)
        IN  /\ Ready
            /\ r.status = 201 => nextOid <= MaxOid
            /\ announcements' = r.coll
            /\ nextOid' = IF r.status = 201 THEN nextOid + 1 ELSE nextOid
            /\ last' = Completed("create", a, r, clock, deleted)
            /\ UNCHANGED <<clock, deleted, inflight>>

(* PUT /announcements/{id}, handled in one step. *)
Update ==
    \E a \in UpdateRequests :
        LET r == update_announcement(announcements, a)
        IN  /\ Ready
            /\ announcements' = r.coll
            /\ last' = Completed("update", a, r, clock, deleted)
            /\ UNCHANGED <<clock, nextOid, deleted, inflight>>

(* DELETE /announcements/{id}, handled in one step. *)
Delete ==
    \E a \in DeleteRequests :
        LET r == delete_announcement(announcements, a)
        IN  /\ Ready
            /\ announcements' = r.coll
            /\ deleted' = IF r.status = 200
                          THEN deleted \cup {a.announcement_id} ELSE deleted
            /\ last' = Completed("delete", a, r, clock, deleted)
            /\ UNCHANGED <<clock, nextOid, inflight>>

Next == Tick \/ Return \/ List \/ Create \/ Update \/ Delete

Spec == Init /\ [][Next]_vars

---------------------------------------------------------------------------
(* Concurrent requests.  A handler runs up to its call on the announcements *)
(* collection in one step (Begin) and from that call on in another          *)
(* (Commit); the steps of different requests interleave, each store call    *)
(* being atomic.  A request whose checks fail is completed by its Begin.    *)
(* A step is taken once the last response has been returned, which orders   *)
(* nothing in the store: Return is always possible and changes last alone.  *)

ConcUsernames == {PyNone, Teacher}

ConcCreateRequests ==
    {Merge(Payload(PyStr(<<"Exam">>), PyStr(<<"Midterm Friday">>), PyNone, ExpOffset),
           [created_by |-> u]) : u \in ConcUsernames}

ConcRequestIds == {SeedA, Str(ObjectId(1))}

ConcUpdateRequests ==
    {a \in UpdateRequests :
        /\ a.modified_by \in ConcUsernames
        /\ a.announcement_id \in ConcRequestIds
        /\ a.message = PyNone /\ a.start_date = PyNone
        /\ (a.title = PyNone) # (a.expiration_date = PyNone)}

ConcDeleteRequests == [announcement_id : ConcRequestIds, deleted_by : ConcUsernames]

(* The requests in flight that will insert a document. *)
PendingCreates ==
    BagCardinality([p \in {q \in BagToSet(inflight) : q.op = "create"} |-> inflight[p]])

Accepting == Ready /\ BagCardinality(inflight) < MaxInFlight

BeginList ==
    /\ Accepting
    /\ inflight' = inflight (+) SetToBag({Pending("list", EmptyDict, {})})
    /\ UNCHANGED <<announcements, clock, nextOid, deleted, last>>

BeginCreate ==
    \E a \in ConcCreateRequests :
        LET auth == _require_teacher(a.created_by)
        IN  /\ Accepting
            /\ IF auth.ok
               THEN /\ nextOid + PendingCreates <= MaxOid
                    /\ inflight' = inflight (+) SetToBag({Pending("create", a, auth.touched)})
                    /\ UNCHANGED last
               ELSE /\ last' = Completed("create", a,
                                         create_announcement(announcements, nextOid, a),
                                         clock, deleted)
                    /\ UNCHANGED inflight
            /\ UNCHANGED <<announcements, clock, nextOid, deleted>>

BeginUpdate ==
    \E a \in ConcUpdateRequests :
        LET checks == update_checks(a)
        IN  /\ Accepting
            /\ IF checks.ok
               THEN /\ inflight' = inflight (+) SetToBag({Pending("update", a, checks.touched)})
                    /\ UNCHANGED last
               ELSE /\ last' = Completed("update", a,
                                         update_announcement(announcements, a),
                                         clock, deleted)
                    /\ UNCHANGED inflight
            /\ UNCHANGED <<announcements, clock, nextOid, deleted>>

BeginDelete ==
    \E a \in ConcDeleteRequests :
        LET auth == _require_teacher(a.deleted_by)
        IN  /\ Accepting
            /\ IF auth.ok
               THEN /\ inflight' = inflight (+) SetToBag({Pending("delete", a, auth.touched)})
                    /\ UNCHANGED last
               ELSE /\ last' = Completed("delete", a,
                                         delete_announcement(announcements, a),
                                         clock, deleted)
                    /\ UNCHANGED inflight
            /\ UNCHANGED <<announcements, clock, nextOid, deleted>>

CommitList ==
    \E p \in BagToSet(inflight) :
        LET r == list_find(announcements, p.now)
        IN  /\ p.op = "list"
            /\ Ready
            /\ last' = Completed("list", p.args, r, p.now, p.began)
            /\ inflight' = inflight (-) SetToBag({p})
            /\ UNCHANGED <<announcements, clock, nextOid, deleted>>

CommitCreate ==
    \E p \in BagToSet(inflight) :
        LET r == create_insert(announcements, nextOid, p.args, p.touched)
        IN  /\ p.op = "create"
            /\ Ready
            /\ announcements' = r.coll
            /\ nextOid' = nextOid + 1
            /\ last' = Completed("create", p.args, r, clock, p.began)
            /\ inflight' = inflight (-) SetToBag({p})
            /\ UNCHANGED <<clock, deleted>>

CommitUpdate ==
    \E p \in BagToSet(inflight) :
        LET r == update_apply(announcements, p.args, p.touched)
        IN  /\ p.op = "update"
            /\ Ready
            /\ announcements' = r.coll
            /\ last' = Completed("update", p.args, r, clock, p.began)
            /\ inflight' = inflight (-) SetToBag({p})
            /\ UNCHANGED <<clock, nextOid, deleted>>

CommitDelete ==
    \E p \in BagToSet(inflight) :
        LET r == delete_apply(announcements, p.args, p.touched)
        IN  /\ p.op = "delete"
            /\ Ready
            /\ announcements' = r.coll
            /\ deleted' = IF r.status = 200
                          THEN deleted \cup {p.args.announcement_id} ELSE deleted
            /\ last' = Completed("delete", p.args, r, clock, p.began)
            /\ inflight' = inflight (-) SetToBag({p})
            /\ UNCHANGED <<clock, nextOid>>

NextConc ==
    \/ Tick
    \/ Return
    \/ BeginList
    \/ BeginCreate
    \/ BeginUpdate
    \/ BeginDelete
    \/ CommitList
    \/ CommitCreate
    \/ CommitUpdate
    \/ CommitDelete

SpecConc == Init /\ [][NextConc]_vars

---------------------------------------------------------------------------
(* Properties.                                                             *)

Writes == {"create", "update", "delete"}

(* The username a write request authenticates with. *)
UserOf(r) ==
    IF r.op = "create" THEN r.args.created_by
    ELSE IF r.op = "update" THEN r.args.modified_by
    ELSE r.args.deleted_by

IsTeacher(u) == u \in teachers_collection

NoFields(a) == \A f \in UpdateFields : a[f] = PyNone

(* The ids create has returned so far. *)
Issued == {Str(ObjectId(n)) : n \in 1..(nextOid - 1)}

(* What ISO-8601 says of a text: whether it is a date-time (with Z, with   *)
(* an offset, or with no designator, then read as UTC) and the UTC instant *)
(* it names.                                                               *)
IsIso(t) ==
    \/ Len(t) = 1 /\ IsDate(t[1])
    \/ Len(t) = 2 /\ IsDate(t[1]) /\ (t[2] = "Z" \/ IsOffset(t[2]))

IsoInstant(t) ==
    LET wall == CHOOSE h \in Hours : t[1] = DateText(h)
    IN  IF Len(t) = 1 \/ t[2] = "Z" THEN wall
        ELSE wall - (CHOOSE h \in Offsets : t[2] = OffsetText(h))

(* The code's own conversion yields a timestamp that compares with now. *)
Comparable(t) ==
    LET dt == fromisoformat(ReplaceZ(t))
    IN  dt.ok /\ dt.aware

Listed(k) == Str(k) \in DOMAIN last.body

(* C1: list() includes every record with no expiration_date and every     *)
(* record whose expiration_date is in the future at the call time, and     *)
(* excludes every record whose expiration_date is in the past, for every   *)
(* ISO-8601 text: with Z, with an offset, with no designator.              *)
C1_ListFiltersByExpiration ==
    last.op = "list" =>
        \A k \in DOMAIN last.before :
            LET exp == Get(last.before[k], "expiration_date")
            IN  /\ exp = PyNone => Listed(k)
                /\ (exp.type = "str" /\ IsIso(exp.s) /\ IsoInstant(exp.s) > last.now)
                       => Listed(k)
                /\ (exp.type = "str" /\ IsIso(exp.s) /\ IsoInstant(exp.s) < last.now)
                       => ~Listed(k)

(* C2: a write by an absent, empty or unknown username fails with 401 and  *)
(* leaves the announcements collection as it was, without reading or       *)
(* writing it; with an absent or empty username no collection is touched.  *)
C2_UnauthorizedWriteRejected ==
    (last.op \in Writes /\ ~IsTeacher(UserOf(last))) =>
        /\ last.status = 401
        /\ announcements = last.before
        /\ "announcements" \notin last.touched
        /\ (UserOf(last) \in {PyNone, PyStr(<<>>)} => last.touched = {})

C2_Witness ==
    /\ last.op = "delete"
    /\ last.args.deleted_by = PyNone
    /\ last.args.announcement_id \in DOMAIN last.before
    /\ last.status = 401

(* C3 as stated: update with no field supplied fails with 400 whatever     *)
(* modified_by is.                                                         *)
C3_BadRequestRegardlessOfAuth ==
    (last.op = "update" /\ NoFields(last.args)) =>
        last.status = 400 /\ last.detail = "No fields to update"

(* C3 amended: update with no field supplied fails with 400 when           *)
(* modified_by names a teacher, and with 401 when it is absent, empty or   *)
(* names no teacher; the collection is unchanged either way.               *)
C3_BadRequestAfterAuth ==
    (last.op = "update" /\ NoFields(last.args)) =>
        /\ IsTeacher(last.args.modified_by) =>
               last.status = 400 /\ last.detail = "No fields to update"
        /\ ~IsTeacher(last.args.modified_by) => last.status = 401
        /\ announcements = last.before

C3_Witness ==
    /\ last.op = "update"
    /\ NoFields(last.args)
    /\ IsTeacher(last.args.modified_by)
    /\ last.args.announcement_id \in DOMAIN last.before
    /\ last.status = 400

(* C4: an id returned by create can be used to update and to delete the    *)
(* record: update with a field and a teacher succeeds and changes it,      *)
(* delete with a teacher succeeds and removes it.                          *)
C4_ReturnedIdAddressesRecord ==
    (/\ last.op \in {"update", "delete"}
     /\ IsTeacher(UserOf(last))
     /\ last.args.announcement_id \in Issued
     /\ last.op = "update" => ~NoFields(last.args)) =>
        /\ last.status = 200
        /\ \A k \in DOMAIN last.before :
               Str(k) = last.args.announcement_id =>
                   IF last.op = "delete" THEN k \notin DOMAIN announcements
                   ELSE /\ k \in DOMAIN announcements
                        /\ \A f \in UpdateFields :
                               last.args[f] # PyNone => announcements[k][f] = last.args[f]

CreateFields == {"title", "message", "start_date", "expiration_date", "created_by"}

(* C6: create by a teacher inserts exactly one record, made of the         *)
(* submitted fields, under a new id, leaves the others unchanged, and      *)
(* returns that id with the submitted fields and nothing else.             *)
C6_CreateInsertsAndEchoes ==
    (last.op = "create" /\ IsTeacher(last.args.created_by)) =>
        /\ last.status = 201
        /\ \E k \in DOMAIN announcements \ DOMAIN last.before :
               /\ DOMAIN announcements = DOMAIN last.before \cup {k}
               /\ announcements[k] = [f \in CreateFields |-> last.args[f]]
               /\ "id" \in DOMAIN last.body /\ last.body["id"] = Str(k)
        /\ \A k \in DOMAIN last.before : announcements[k] = last.before[k]
        /\ DOMAIN last.body = {"id"} \cup CreateFields
        /\ \A f \in CreateFields : last.body[f] = last.args[f]

(* C7: update (with a field, by a teacher) and delete (by a teacher) on an *)
(* id that matches no stored record fail with 404 and leave the collection *)
(* unchanged.                                                              *)
C7_MissingIdNotFound ==
    (/\ last.op \in {"update", "delete"}
     /\ IsTeacher(UserOf(last))
     /\ last.op = "update" => ~NoFields(last.args)
     /\ last.args.announcement_id \notin DOMAIN last.before) =>
        /\ last.status = 404
        /\ announcements = last.before

C7_Witness ==
    /\ last.op = "update"
    /\ IsTeacher(last.args.modified_by)
    /\ last.args.title # PyNone
    /\ last.args.announcement_id = SeedA
    /\ SeedA \notin DOMAIN last.before
    /\ last.status = 404

(* C8: a successful update sets exactly the supplied fields of the matched *)
(* record to the supplied values; its other fields keep their values, no   *)
(* modified_by is added, and the other records are unchanged.              *)
C8_UpdateFrame ==
    (last.op = "update" /\ last.status = 200) =>
        LET id == last.args.announcement_id
            supplied == {f \in UpdateFields : last.args[f] # PyNone}
        IN  /\ id \in DOMAIN last.before
            /\ DOMAIN announcements = DOMAIN last.before
            /\ \A k \in DOMAIN last.before \ {id} : announcements[k] = last.before[k]
            /\ DOMAIN announcements[id] = DOMAIN last.before[id] \cup supplied
            /\ \A f \in supplied : announcements[id][f] = last.args[f]
            /\ \A f \in DOMAIN last.before[id] \ supplied :
                   announcements[id][f] = last.before[id][f]
            /\ "modified_by" \notin DOMAIN announcements[id]

C8_Witness ==
    /\ last.op = "update"
    /\ last.status = 200
    /\ last.args.title # PyNone
    /\ last.args.message = PyNone
    /\ SeedB \in DOMAIN announcements
    /\ announcements[last.args.announcement_id].title # last.before[last.args.announcement_id].title
    /\ announcements[last.args.announcement_id].created_by = Teacher

(* C9: every stored announcement has a non-empty title and a non-empty     *)
(* message.                                                                *)
C9_TitleAndMessageNonEmpty ==
    \A k \in DOMAIN announcements :
        /\ Get(announcements[k], "title").type = "str"
        /\ Get(announcements[k], "title").s # <<>>
        /\ Get(announcements[k], "message").type = "str"
        /\ Get(announcements[k], "message").s # <<>>

(* C10: removal is permanent under every interleaving: a deleted id is in  *)
(* no later list() result and is never stored again; an update or delete   *)
(* of it that reaches the store after the removal fails with 404 and       *)
(* changes nothing; a successful delete removes the matched record only.   *)
C10_DeleteIsPermanent ==
    /\ \A i \in deleted : i \notin DOMAIN announcements
    /\ last.op = "list" => \A i \in last.gone : i \notin DOMAIN last.body
    /\ (/\ last.op \in {"update", "delete"}
        /\ "announcements" \in last.touched
        /\ last.args.announcement_id \in last.gone) =>
           last.status = 404 /\ announcements = last.before
    /\ (last.op = "delete" /\ last.status = 200) =>
           /\ last.args.announcement_id \in DOMAIN last.before
           /\ DOMAIN announcements = DOMAIN last.before \ {last.args.announcement_id}
           /\ \A k \in DOMAIN announcements : announcements[k] = last.before[k]

(* An update that arrived while the record existed and reached the store   *)
(* after a concurrent delete had removed it.                               *)
C10_Witness ==
    /\ last.op = "update"
    /\ last.args.announcement_id \in last.gone
    /\ last.args.announcement_id \notin last.began
    /\ last.status = 404
    /\ SeedB \in DOMAIN announcements

====
